---- MODULE Spec2Model ----
(***************************************************************************)
(* A model of the u-search query engine (src/src/lib.rs and                *)
(* src/src/ranking_rules/*.rs): index construction, candidate generation,  *)
(* the three ranking rules and the cascading bucket-sort driver of         *)
(* Index::search.                                                          *)
(*                                                                         *)
(* Strings are sequences of Unicode code points (naturals).  A             *)
(* RoaringBitmap is the set of the document ids it holds; iterating one    *)
(* visits its ids in ascending order.  A Vec is a sequence; Rust's 0-based *)
(* position i is position i+1 here.                                        *)
(***************************************************************************)
EXTENDS Integers, Sequences, FiniteSets, TLC

(***************************************************************************)
(* Generic helpers on sets and sequences.                                  *)
(***************************************************************************)
Min2(a, b) == IF a <= b THEN a ELSE b

SetMax(S) == CHOOSE x \in S : \A y \in S : y <= x

SetMin(S) == CHOOSE x \in S : \A y \in S : x <= y

\* The sequences over S of length at most n.
SeqsUpTo(S, n) == UNION { [1..k -> S] : k \in 0..n }

RECURSIVE SeqUnion(_)
\* The union of the sets of a sequence (roaring's MultiOps::union).
SeqUnion(s) == IF s = <<>> THEN {} ELSE Head(s) \cup SeqUnion(Tail(s))

RECURSIVE SeqIntersection(_)
\* The intersection of the sets of a sequence; empty for the empty sequence
\* (roaring's MultiOps::intersection of an empty iterator is the empty bitmap).
SeqIntersection(s) ==
    IF s = <<>> THEN {}
    ELSE IF Len(s) = 1 THEN Head(s)
    ELSE Head(s) \cap SeqIntersection(Tail(s))

RECURSIVE SumLen(_)
\* The sum of the cardinalities of the sets of a sequence.
SumLen(s) == IF s = <<>> THEN 0 ELSE Cardinality(Head(s)) + SumLen(Tail(s))

RECURSIVE Descending(_)
\* The elements of a set of naturals as a descending sequence.
Descending(S) ==
    IF S = {} THEN <<>>
    ELSE LET m == SetMax(S) IN <<m>> \o Descending(S \ {m})

RECURSIVE Ascending(_)
\* The elements of a set of naturals as an ascending sequence (a bitmap's iter()).
Ascending(S) ==
    IF S = {} THEN <<>>
    ELSE LET m == SetMin(S) IN <<m>> \o Ascending(S \ {m})

RECURSIVE Flatten(_)
\* flat_map over the buckets: each bucket's ids in ascending order, concatenated.
Flatten(s) == IF s = <<>> THEN <<>> ELSE Ascending(Head(s)) \o Flatten(Tail(s))

\* Iterator::take(n)
Take(s, n) == SubSeq(s, 1, Min2(n, Len(s)))

Reverse(s) == [i \in 1..Len(s) |-> s[Len(s) + 1 - i]]

RECURSIVE RetainNonEmpty(_)
\* Vec::retain(|bucket| !bucket.is_empty())
RetainNonEmpty(s) ==
    IF s = <<>> THEN <<>>
    ELSE (IF Head(s) # {} THEN <<Head(s)>> ELSE <<>>) \o RetainNonEmpty(Tail(s))

(***************************************************************************)
(* Bytes: the integers written by to_be_bytes, and str::as_bytes and       *)
(* str::from_utf8.  A byte is a number of 0..255, an Option is <<>> for    *)
(* None and <<x>> for Some(x).                                             *)
(***************************************************************************)
RECURSIVE BigEndian(_, _)
\* The w bytes of n, the most significant first.
BigEndian(n, w) ==
    IF w = 0 THEN <<>> ELSE Append(BigEndian(n \div 256, w - 1), n % 256)

\* The number that stands for every number of 2^24 and more: such a size or
\* count is larger than any input here, whatever its value.
Huge == 256 * 65536

RECURSIVE FromBigEndian(_)
\* The number of big-endian bytes (Huge for 2^24 and more).
FromBigEndian(bytes) ==
    IF bytes = <<>> THEN 0
    ELSE LET high == FromBigEndian(SubSeq(bytes, 1, Len(bytes) - 1))
         IN IF high >= Huge \div 256 THEN Huge ELSE high * 256 + bytes[Len(bytes)]

\* The w bytes of n, the least significant first.
LittleEndian(n, w) == Reverse(BigEndian(n, w))

FromLittleEndian(bytes) == FromBigEndian(Reverse(bytes))

\* A usize of 4 bytes.
to_be_bytes_4(n) == BigEndian(n, 4)

\* usize::to_be_bytes: a usize has 8 bytes (from_bytes reads chunks of 8).
to_be_bytes(n) == BigEndian(n, 8)

\* usize::from_be_bytes
from_be_bytes(bytes) == FromBigEndian(bytes)

\* The UTF-8 encoding of one character.
EncodeChar(ch) ==
    IF ch < 128 THEN <<ch>>
    ELSE IF ch < 2048 THEN <<192 + ch \div 64, 128 + (ch % 64)>>
    ELSE IF ch < 65536
         THEN <<224 + ch \div 4096, 128 + ((ch \div 64) % 64), 128 + (ch % 64)>>
         ELSE <<240 + ch \div 262144, 128 + ((ch \div 4096) % 64),
                128 + ((ch \div 64) % 64), 128 + (ch % 64)>>

RECURSIVE as_bytes(_)
\* str::as_bytes
as_bytes(s) == IF s = <<>> THEN <<>> ELSE EncodeChar(Head(s)) \o as_bytes(Tail(s))

\* The number of bytes of the UTF-8 sequence that starts with bytes[1], or 0
\* where no well-formed sequence starts there (a stray continuation byte, an
\* overlong form, a surrogate, a value above U+10FFFF, or an input that ends
\* inside the sequence).
SequenceLen(bytes) ==
    LET b == bytes[1]
        Cont(i) == Len(bytes) >= i /\ bytes[i] \in 128..191
        Second(lo, hi) == Len(bytes) >= 2 /\ bytes[2] \in lo..hi
    IN IF b < 128 THEN 1
       ELSE IF b \in 194..223 THEN (IF Cont(2) THEN 2 ELSE 0)
       ELSE IF b = 224 THEN (IF Second(160, 191) /\ Cont(3) THEN 3 ELSE 0)
       ELSE IF b = 237 THEN (IF Second(128, 159) /\ Cont(3) THEN 3 ELSE 0)
       ELSE IF b \in 225..239 THEN (IF Cont(2) /\ Cont(3) THEN 3 ELSE 0)
       ELSE IF b = 240 THEN (IF Second(144, 191) /\ Cont(3) /\ Cont(4) THEN 4 ELSE 0)
       ELSE IF b \in 241..243 THEN (IF Cont(2) /\ Cont(3) /\ Cont(4) THEN 4 ELSE 0)
       ELSE IF b = 244 THEN (IF Second(128, 143) /\ Cont(3) /\ Cont(4) THEN 4 ELSE 0)
       ELSE 0

\* The character of a well-formed UTF-8 sequence.
DecodeChar(seq) ==
    IF Len(seq) = 1 THEN seq[1]
    ELSE IF Len(seq) = 2 THEN (seq[1] - 192) * 64 + (seq[2] - 128)
    ELSE IF Len(seq) = 3
         THEN (seq[1] - 224) * 4096 + (seq[2] - 128) * 64 + (seq[3] - 128)
         ELSE (seq[1] - 240) * 262144 + (seq[2] - 128) * 4096
              + (seq[3] - 128) * 64 + (seq[4] - 128)

RECURSIVE from_utf8(_)
\* std::str::from_utf8(..).ok(): the string of the bytes, None when they are
\* not UTF-8.
from_utf8(bytes) ==
    IF bytes = <<>> THEN << <<>> >>
    ELSE LET n == SequenceLen(bytes)
         IN IF n = 0 THEN <<>>
            ELSE LET rest == from_utf8(SubSeq(bytes, n + 1, Len(bytes)))
                 IN IF rest = <<>> THEN <<>>
                    ELSE << <<DecodeChar(SubSeq(bytes, 1, n))>> \o rest[1] >>

(***************************************************************************)
(* Characters and strings.                                                 *)
(***************************************************************************)
\* char::is_whitespace (the Unicode White_Space property), used by split_whitespace.
IsWhitespace(ch) ==
    \/ ch \in 9..13
    \/ ch \in {32, 133, 160, 5760, 8232, 8233, 8239, 8287, 12288}
    \/ ch \in 8192..8202

\* char::to_ascii_lowercase
ToAsciiLowercase(ch) == IF ch \in 65..90 THEN ch + 32 ELSE ch

\* char::is_ascii_punctuation
IsAsciiPunctuation(ch) ==
    ch \in (33..47) \cup (58..64) \cup (91..96) \cup (123..126)

\* char::is_ascii_graphic
IsAsciiGraphic(ch) == ch \in 33..126

\* char::is_ascii_control
IsAsciiControl(ch) == ch \in (0..31) \cup {127}

\* The closure without to_ascii_lowercase.
NormalizeChar_cased(ch) ==
    IF ch \in {225, 226, 224, 228} THEN <<97>>
    ELSE IF ch \in {233, 234, 232, 235} THEN <<101>>
    ELSE IF ch \in {237, 238, 236, 239} THEN <<105>>
    ELSE IF ch \in {243, 244, 242, 246} THEN <<111>>
    ELSE IF ch \in {250, 251, 249, 252} THEN <<117>>
    ELSE IF IsAsciiPunctuation(ch) \/ ~IsAsciiGraphic(ch) \/ IsAsciiControl(ch) THEN <<>>
    ELSE <<ch>>

\* One character through the filter_map closure of normalize: the sequence of
\* the characters it yields (none or one).
NormalizeChar(ch) ==
    LET lc == ToAsciiLowercase(ch) IN
    IF lc \in {225, 226, 224, 228} THEN <<97>>            \* a-acute, -circumflex, -grave, -diaeresis
    ELSE IF lc \in {233, 234, 232, 235} THEN <<101>>      \* e
    ELSE IF lc \in {237, 238, 236, 239} THEN <<105>>      \* i
    ELSE IF lc \in {243, 244, 242, 246} THEN <<111>>      \* o
    ELSE IF lc \in {250, 251, 249, 252} THEN <<117>>      \* u
    ELSE IF IsAsciiPunctuation(lc) \/ ~IsAsciiGraphic(lc) \/ IsAsciiControl(lc) THEN <<>>
    ELSE <<lc>>

RECURSIVE normalize(_)
normalize(s) == IF s = <<>> THEN <<>> ELSE NormalizeChar(Head(s)) \o normalize(Tail(s))

RECURSIVE SplitFrom(_, _)
\* str::split_whitespace on s, with cur the word being read.
SplitFrom(s, cur) ==
    IF s = <<>> THEN (IF cur = <<>> THEN <<>> ELSE <<cur>>)
    ELSE IF IsWhitespace(Head(s))
         THEN (IF cur = <<>> THEN <<>> ELSE <<cur>>) \o SplitFrom(Tail(s), <<>>)
         ELSE SplitFrom(Tail(s), Append(cur, Head(s)))

split_whitespace(s) == SplitFrom(s, <<>>)

RECURSIVE StrLess(_, _)
\* The order of str::cmp (lexicographic; code-point order is UTF-8 byte order).
StrLess(a, b) ==
    IF b = <<>> THEN FALSE
    ELSE IF a = <<>> THEN TRUE
    ELSE IF Head(a) # Head(b) THEN Head(a) < Head(b)
    ELSE StrLess(Tail(a), Tail(b))

RECURSIVE SortStrings(_)
\* A set of strings as the ascending sequence.
SortStrings(S) ==
    IF S = {} THEN <<>>
    ELSE LET m == CHOOSE x \in S : \A y \in S \ {x} : StrLess(x, y)
         IN <<m>> \o SortStrings(S \ {m})

(***************************************************************************)
(* Edit distances.  Both are computed row by row over the target string:   *)
(* row i holds the distances from the first i characters of the target to  *)
(* every prefix of the source (position j+1 holds the one to its first j   *)
(* characters).                                                            *)
(***************************************************************************)
RECURSIVE EditRow(_, _, _, _, _, _, _)
\* The row of target prefix i, built from left to right; acc holds its
\* first cells, prev is row i-1 and prev2 row i-2.  transpose says whether an
\* adjacent transposition is one edit (the restricted Damerau-Levenshtein
\* distance, or optimal string alignment) or not (Levenshtein).
EditRow(src, tar, i, prev, prev2, acc, transpose) ==
    LET j == Len(acc) IN
    IF j > Len(src) THEN acc
    ELSE LET cost == IF src[j] = tar[i] THEN 0 ELSE 1
             base == Min2(Min2(prev[j + 1] + 1, acc[j] + 1), prev[j] + cost)
             cell == IF /\ transpose
                        /\ i > 1
                        /\ j > 1
                        /\ src[j] = tar[i - 1]
                        /\ src[j - 1] = tar[i]
                     THEN Min2(base, prev2[j - 1] + 1)
                     ELSE base
         IN EditRow(src, tar, i, prev, prev2, Append(acc, cell), transpose)

RECURSIVE EditRows(_, _, _, _, _, _)
\* The rows of target prefixes i..Len(tar), appended to rows (which ends with
\* rows i-2 and i-1).
EditRows(src, tar, i, prev, prev2, transpose) ==
    IF i > Len(tar) THEN <<>>
    ELSE LET row == EditRow(src, tar, i, prev, prev2, <<i>>, transpose)
         IN <<row>> \o EditRows(src, tar, i + 1, row, prev, transpose)

\* Row 0 followed by the rows of every non-empty prefix of tar.
EditTable(src, tar, transpose) ==
    LET row0 == [j \in 1..(Len(src) + 1) |-> j - 1]
    IN <<row0>> \o EditRows(src, tar, 1, row0, row0, transpose)

\* text_distance::DamerauLevenshtein { src, tar, restricted: true }.distance()
DamerauLevenshtein(src, tar) ==
    EditTable(src, tar, TRUE)[Len(tar) + 1][Len(src) + 1]

\* The Levenshtein distance from query to key, which decides
\* fst::automaton::Levenshtein::new(query, distance): the automaton accepts the
\* keys within that distance of the query.
LevenshteinMatches(query, distance, key) ==
    EditTable(query, key, FALSE)[Len(key) + 1][Len(query) + 1] <= distance

\* Levenshtein::starts_with(): the keys of which a prefix (the empty one and
\* the whole key included) is accepted.
LevenshteinPrefixMatches(query, distance, key) ==
    LET table == EditTable(query, key, FALSE)
    IN \E i \in 1..(Len(key) + 1) : table[i][Len(query) + 1] <= distance

(***************************************************************************)
(* Index construction (Index::construct read back by Index::from_bytes, as *)
(* Index::new_in_memory does): the document table, the posting bitmaps and *)
(* the term dictionary.  The fst is the sequence of its (key, value)       *)
(* entries in key order, the order in which a stream visits them.          *)
(***************************************************************************)
\* The (id, word) pairs of the tokens as they are in the documents.
DocumentWords_raw(documents) ==
    UNION { { <<i - 1, split_whitespace(documents[i])[k]>> :
                k \in 1..Len(split_whitespace(documents[i])) } :
            i \in 1..Len(documents) }

\* The (id, normalized word) pairs construct collects: one per token of every
\* document, the documents numbered from 0 in the order given.
DocumentWords(documents) ==
    UNION { { <<i - 1, normalize(split_whitespace(documents[i])[k])>> :
                k \in 1..Len(split_whitespace(documents[i])) } :
            i \in 1..Len(documents) }

RECURSIVE PairsOfWords(_, _)
\* The pairs ordered by word as sort_unstable_by leaves them (pairs of one
\* word are here in id order; the loop below does not depend on their order).
PairsOfWords(pairs, words) ==
    IF words = <<>> THEN <<>>
    ELSE LET ids == Ascending({ p[1] : p \in { q \in pairs : q[2] = Head(words) } })
         IN [k \in 1..Len(ids) |-> <<ids[k], Head(words)>>]
            \o PairsOfWords(pairs, Tail(words))

SortedWords(documents) ==
    LET pairs == DocumentWords(documents)
    IN PairsOfWords(pairs, SortStrings({ p[2] : p \in pairs }))

RECURSIVE BuildLoop(_, _, _, _)
\* The loop of construct over the sorted pairs: a new word opens a bitmap and
\* an fst entry pointing at it, a repeated word adds its id to the last bitmap.
\* last_word is <<>> for None and <<word>> for Some(word).
BuildLoop(words, last_word, bitmaps, fst) ==
    IF words = <<>> THEN [bitmaps |-> bitmaps, fst |-> fst]
    ELSE LET id == Head(words)[1]
             word == Head(words)[2]
         IN IF <<word>> # last_word
            THEN BuildLoop(Tail(words), <<word>>,
                           Append(bitmaps, {id}),
                           Append(fst, [key |-> word, value |-> Len(bitmaps)]))
            ELSE BuildLoop(Tail(words), <<word>>,
                           [bitmaps EXCEPT ![Len(bitmaps)] = @ \cup {id}],
                           fst)

RECURSIVE Concat(_)
\* The concatenation of the sequences of a sequence.
Concat(s) == IF s = <<>> THEN <<>> ELSE Head(s) \o Concat(Tail(s))

\* The containers of a bitmap: the high 16 bits of its ids, ascending.
ContainerKeys(bitmap) == Ascending({ id \div 65536 : id \in bitmap })

\* The low 16 bits of the ids of a container, ascending.
ContainerValues(bitmap, key) ==
    Ascending({ id % 65536 : id \in { x \in bitmap : x \div 65536 = key } })

\* RoaringBitmap::serialize_into, for containers of at most 4096 ids (array
\* containers): the cookie of the format without run containers and the
\* number of containers, the key and the cardinality less one of every
\* container, the offset of every container, then the ids of every container,
\* all little-endian.
serialize_into(bitmap) ==
    LET keys == ContainerKeys(bitmap)
        n == Len(keys)
        values == [c \in 1..n |-> ContainerValues(bitmap, keys[c])]
        offset(c) == 8 + 8 * n + 2 * Len(Concat(SubSeq(values, 1, c - 1)))
    IN LittleEndian(12346, 4) \o LittleEndian(n, 4)
       \o Concat([c \in 1..n |->
                     LittleEndian(keys[c], 2) \o LittleEndian(Len(values[c]) - 1, 2)])
       \o Concat([c \in 1..n |-> LittleEndian(offset(c), 4)])
       \o Concat([c \in 1..n |->
                     Concat([v \in 1..Len(values[c]) |-> LittleEndian(values[c][v], 2)])])

RECURSIVE ReadContainers(_, _, _, _)
\* The containers of a serialized bitmap read one after the other: the ids
\* read and the bytes left, or None when the input ends inside a container
\* (or announces a container that is not an array container).
ReadContainers(descriptions, bytes, c, bitmap) ==
    IF c > Len(descriptions) \div 4 THEN <<[bitmap |-> bitmap, bytes |-> bytes]>>
    ELSE LET key == FromLittleEndian(SubSeq(descriptions, 4 * c - 3, 4 * c - 2))
             card == FromLittleEndian(SubSeq(descriptions, 4 * c - 1, 4 * c)) + 1
         IN IF card > 4096 \/ Len(bytes) < 2 * card THEN <<>>
            ELSE ReadContainers(
                     descriptions, SubSeq(bytes, 2 * card + 1, Len(bytes)), c + 1,
                     bitmap \cup { IF key >= Huge \div 65536 THEN Huge
                                   ELSE key * 65536
                                        + FromLittleEndian(SubSeq(bytes, 2 * v - 1, 2 * v)) :
                                   v \in 1..card })

\* RoaringBitmap::deserialize_from(&mut bytes): Some of the bitmap and the
\* bytes behind it, None for its Err (the input ends inside the bitmap, or
\* does not start with the cookie).
deserialize_from(bytes) ==
    IF Len(bytes) < 8 \/ FromLittleEndian(SubSeq(bytes, 1, 4)) # 12346 THEN <<>>
    ELSE LET n == FromLittleEndian(SubSeq(bytes, 5, 8))
         IN IF n > 65536 \/ Len(bytes) < 8 + 8 * n THEN <<>>
            ELSE ReadContainers(SubSeq(bytes, 9, 8 + 4 * n),
                                SubSeq(bytes, 9 + 8 * n, Len(bytes)), 1, {})

\* MapBuilder::into_inner: the bytes of the fst.  The node layout of the fst
\* crate is not modelled: the bytes are the version and the type of the
\* header, the entries in key order (the length of the key, the key, the
\* value), and the number of entries and the length of the entries as footer.
into_inner(fst) ==
    LET body == Concat([e \in 1..Len(fst) |->
                           <<Len(as_bytes(fst[e].key))>> \o as_bytes(fst[e].key)
                           \o LittleEndian(fst[e].value, 8)])
    IN LittleEndian(3, 8) \o LittleEndian(0, 8) \o body
       \o LittleEndian(Len(fst), 8) \o LittleEndian(Len(body), 8)

RECURSIVE ReadEntries(_, _)
\* The entries of the body of an fst, None when the body does not hold
\* entries with keys in strictly ascending order.
ReadEntries(body, fst) ==
    IF body = <<>> THEN <<fst>>
    ELSE LET n == body[1]
         IN IF Len(body) < 1 + n + 8 THEN <<>>
            ELSE LET key == from_utf8(SubSeq(body, 2, 1 + n))
                     value == FromLittleEndian(SubSeq(body, 2 + n, 9 + n))
                 IN IF key = <<>> THEN <<>>
                    ELSE IF fst # <<>> /\ ~StrLess(fst[Len(fst)].key, key[1]) THEN <<>>
                    ELSE ReadEntries(SubSeq(body, 10 + n, Len(body)),
                                     Append(fst, [key |-> key[1], value |-> value]))

\* Map::new(..).ok(): the map of the bytes of an fst, None when they are not
\* an fst (too short, an unknown version, a footer that does not fit the
\* entries).
Map_new(bytes) ==
    IF Len(bytes) < 32 THEN <<>>
    ELSE LET version == FromLittleEndian(SubSeq(bytes, 1, 8))
             len == FromLittleEndian(SubSeq(bytes, Len(bytes) - 15, Len(bytes) - 8))
             size == FromLittleEndian(SubSeq(bytes, Len(bytes) - 7, Len(bytes)))
         IN IF version \notin 1..3 \/ size # Len(bytes) - 32 THEN <<>>
            ELSE LET fst == ReadEntries(SubSeq(bytes, 17, Len(bytes) - 16), <<>>)
                 IN IF fst = <<>> \/ Len(fst[1]) # len THEN <<>> ELSE fst

\* Index::write_slice
write_slice(slice) == to_be_bytes(Len(slice)) \o slice

\* Index::construct: the bytes written to the writer.
construct(documents) ==
    LET built == BuildLoop(SortedWords(documents), <<>>, <<>>, <<>>)
    IN to_be_bytes(Len(documents))
       \o Concat([d \in 1..Len(documents) |-> write_slice(as_bytes(documents[d]))])
       \o to_be_bytes(Len(built.bitmaps))
       \o Concat([b \in 1..Len(built.bitmaps) |-> serialize_into(built.bitmaps[b])])
       \o write_slice(into_inner(built.fst))

\* Index::read_size_from_bytes: Some of the size and the bytes behind it.
read_size_from_bytes(bytes) ==
    IF Len(bytes) < 8 THEN <<>>
    ELSE <<[size |-> from_be_bytes(SubSeq(bytes, 1, 8)),
            bytes |-> SubSeq(bytes, 9, Len(bytes))]>>

\* Index::read_slice_from_bytes: Some of the slice and the bytes behind it.
read_slice_from_bytes(bytes) ==
    LET size == read_size_from_bytes(bytes)
    IN IF size = <<>> THEN <<>>
       ELSE IF Len(size[1].bytes) < size[1].size THEN <<>>
       ELSE <<[ret |-> SubSeq(size[1].bytes, 1, size[1].size),
               bytes |-> SubSeq(size[1].bytes, size[1].size + 1, Len(size[1].bytes))]>>

\* What a call that may panic gives: Some(value), None, or the panic.
Some(value) == [tag |-> "Some", value |-> value]
None == [tag |-> "None"]
Panic == [tag |-> "Panic"]

RECURSIVE ReadDocuments(_, _, _)
\* The loop of from_bytes over the documents: Some of the documents and the
\* bytes behind them.
ReadDocuments(bytes, nb_documents, documents) ==
    IF nb_documents = 0 THEN Some([documents |-> documents, bytes |-> bytes])
    ELSE LET document == read_slice_from_bytes(bytes)
         IN IF document = <<>> THEN None
            ELSE LET str == from_utf8(document[1].ret)
                 IN IF str = <<>> THEN None
                    ELSE ReadDocuments(document[1].bytes, nb_documents - 1,
                                       Append(documents, str[1]))

RECURSIVE ReadBitmaps(_, _, _)
\* The loop of from_bytes over the bitmaps: deserialize_from(..).unwrap()
\* panics on an Err.
ReadBitmaps(bytes, nb_bitmaps, bitmaps) ==
    IF nb_bitmaps = 0 THEN Some([bitmaps |-> bitmaps, bytes |-> bytes])
    ELSE LET bitmap == deserialize_from(bytes)
         IN IF bitmap = <<>> THEN Panic
            ELSE ReadBitmaps(bitmap[1].bytes, nb_bitmaps - 1,
                             Append(bitmaps, bitmap[1].bitmap))

\* The third part of from_bytes: the fst, and the Index.
ReadFst(bytes, documents, bitmaps) ==
    LET slice == read_slice_from_bytes(bytes)
    IN IF slice = <<>> THEN None
       ELSE LET fst == Map_new(slice[1].ret)
            IN IF fst = <<>> THEN None
               ELSE Some([documents |-> documents, bitmaps |-> bitmaps, fst |-> fst[1]])

\* Index::from_bytes
from_bytes(bytes) ==
    LET nb_documents == read_size_from_bytes(bytes)
    IN IF nb_documents = <<>> THEN None
       ELSE LET documents == ReadDocuments(nb_documents[1].bytes, nb_documents[1].size, <<>>)
            IN IF documents.tag # "Some" THEN documents
               ELSE LET nb_bitmaps == read_size_from_bytes(documents.value.bytes)
                    IN IF nb_bitmaps = <<>> THEN None
                       ELSE LET bitmaps == ReadBitmaps(nb_bitmaps[1].bytes,
                                                       nb_bitmaps[1].size, <<>>)
                            IN IF bitmaps.tag # "Some" THEN bitmaps
                               ELSE ReadFst(bitmaps.value.bytes,
                                            documents.value.documents,
                                            bitmaps.value.bitmaps)

\* Index::move_in_memory: the borrowed documents and fst become owned copies.
move_in_memory(self) ==
    [documents |-> [d \in 1..Len(self.documents) |-> self.documents[d]],
     bitmaps |-> self.bitmaps,
     fst |-> [e \in 1..Len(self.fst) |-> self.fst[e]]]

\* Index::new_in_memory
new_in_memory(documents) ==
    LET index == from_bytes(construct(documents))
    IN IF index.tag = "Some" THEN Some(move_in_memory(index.value)) ELSE index

(***************************************************************************)
(* Candidate generation.                                                   *)
(***************************************************************************)
\* WordCandidate::new: typos[0..=3] are positions 1..4 of typos.
WordCandidate_new(original, normalized, index) ==
    [original |-> original, normalized |-> normalized, index |-> index,
     typos |-> <<{}, {}, {}, {}>>]

\* WordCandidate::insert_with_maybe_typo
insert_with_maybe_typo(self, other, bitmap) ==
    LET tar == SubSeq(other, 1, Min2(Len(other), Len(self.normalized)))
        distance == Min2(DamerauLevenshtein(self.normalized, tar), 3)
    IN [self EXCEPT !.typos[distance + 1] = @ \cup bitmap]

RECURSIVE InsertMatches(_, _, _, _, _)
\* The while-let loop over the stream of the fst entries the automaton accepts.
InsertMatches(candidate, index, entries, typo, prefix) ==
    IF entries = <<>> THEN candidate
    ELSE LET e == Head(entries)
             matched == IF prefix
                        THEN LevenshteinPrefixMatches(candidate.normalized, typo, e.key)
                        ELSE LevenshteinMatches(candidate.normalized, typo, e.key)
         IN InsertMatches(
                IF matched
                THEN insert_with_maybe_typo(candidate, e.key, index.bitmaps[e.value + 1])
                ELSE candidate,
                index, Tail(entries), typo, prefix)

\* The (word, normalized) pairs of a query, the empty normalized forms kept.
QueryWords_unfiltered(input) ==
    LET all == split_whitespace(input)
    IN [i \in 1..Len(all) |-> [word |-> all[i], normalized |-> normalize(all[i])]]

\* The (word, normalized) pairs of a query whose normalized form is not empty.
QueryWords(input) ==
    LET all == split_whitespace(input)
        RECURSIVE Filter(_)
        Filter(ws) ==
            IF ws = <<>> THEN <<>>
            ELSE LET normalized == normalize(Head(ws))
                 IN (IF normalized # <<>>
                     THEN <<[word |-> Head(ws), normalized |-> normalized]>>
                     ELSE <<>>) \o Filter(Tail(ws))
    IN Filter(all)

\* Index::get_candidates
get_candidates(index, search) ==
    LET words == QueryWords(search.input)
    IN [i \in 1..Len(words) |->
          LET typo == Min2(Len(words[i].normalized) \div 3, 3)
          IN InsertMatches(
                 WordCandidate_new(words[i].word, words[i].normalized, i - 1),
                 index, index.fst, typo, i = Len(words))]

\* A cleanup of typos[0] only.
cleanup_first(used, candidates) ==
    [i \in 1..Len(candidates) |->
        [candidates[i] EXCEPT !.typos[1] = @ \ used]]

\* A cleanup that adds the used ids.
cleanup_adds(used, candidates) ==
    [i \in 1..Len(candidates) |->
        [candidates[i] EXCEPT !.typos = [k \in 1..Len(@) |-> @[k] \cup used]]]

\* A cleanup that forgets the subtraction.
cleanup_nothing(used, candidates) == candidates

\* Index::cleanup: the used ids leave every typo bitmap of every candidate.
cleanup(used, candidates) ==
    [i \in 1..Len(candidates) |->
        [candidates[i] EXCEPT !.typos = [k \in 1..Len(@) |-> @[k] \ used]]]

(***************************************************************************)
(* The ranking rules.  A rule instance is a record of its kind and of the  *)
(* fields of the three structs (Word: first_iteration; Typo:               *)
(* first_iteration, typo_allowed, max_typos; Exact: buckets), the fields   *)
(* of the other kinds left at their defaults.  next returns the flow       *)
(* (Continue, Break with its bucket, or Panic), the rule and the words as  *)
(* it leaves them.                                                         *)
(***************************************************************************)
Rule(kind, first_iteration, typo_allowed, max_typos, buckets) ==
    [kind |-> kind, first_iteration |-> first_iteration,
     typo_allowed |-> typo_allowed, max_typos |-> max_typos, buckets |-> buckets]

Flow(flow, bucket, self, words) ==
    [flow |-> flow, bucket |-> bucket, self |-> self, words |-> words]

\* The document frequency Word::new sorts by: the size of the union of a
\* candidate's typo bitmaps.
Frequency(candidate) == Cardinality(SeqUnion(candidate.typos))

RECURSIVE SortByFrequency(_, _)
\* Vec::sort_by_cached_key on the frequency: a stable ascending sort (each
\* word goes behind the already sorted words that are not more frequent).
SortByFrequency(sorted, words) ==
    IF words = <<>> THEN sorted
    ELSE LET w == Head(words)
             before == { i \in 1..Len(sorted) : Frequency(sorted[i]) <= Frequency(w) }
             n == IF before = {} THEN 0 ELSE SetMax(before)
         IN SortByFrequency(
                SubSeq(sorted, 1, n) \o <<w>> \o SubSeq(sorted, n + 1, Len(sorted)),
                Tail(words))

\* Word::new without its sort.
Word_new_unsorted(words) ==
    [self |-> Rule("Word", TRUE, 0, 0, <<>>), words |-> words]

\* Word::new sorting by descending frequency.
Word_new_descending(words) ==
    [self |-> Rule("Word", TRUE, 0, 0, <<>>),
     words |-> Reverse(SortByFrequency(<<>>, words))]

\* Word::new: the rule, and the words as it sorted them.
Word_new(words) ==
    [self |-> Rule("Word", TRUE, 0, 0, <<>>), words |-> SortByFrequency(<<>>, words)]

\* Word::next popping the first word.
Word_next_first(self, words) ==
    IF self.first_iteration
    THEN Flow("Continue", {}, [self EXCEPT !.first_iteration = FALSE], words)
    ELSE IF Len(words) <= 1
         THEN Flow("Break", {}, self, <<>>)
         ELSE Flow("Continue", {}, self, Tail(words))

\* Word::next
Word_next(self, words) ==
    IF self.first_iteration
    THEN Flow("Continue", {}, [self EXCEPT !.first_iteration = FALSE], words)
    ELSE LET popped == SubSeq(words, 1, Len(words) - 1)
         IN IF popped = <<>>
            THEN Flow("Break", {}, self, popped)
            ELSE Flow("Continue", {}, self, popped)

\* Word::current_results
Word_current_results(self, words) ==
    SeqIntersection([i \in 1..Len(words) |-> SeqUnion(words[i].typos)])

\* Typo::new with one more allowance than the candidates have typo slots.
Typo_new_more(words) ==
    Rule("Typo", TRUE, 0,
         IF words = <<>> THEN 0
         ELSE SetMax({ Len(words[i].typos) : i \in 1..Len(words) }) + 1,
         <<>>)

\* Typo::new
Typo_new(words) ==
    Rule("Typo", TRUE, 0,
         IF words = <<>> THEN 0 ELSE SetMax({ Len(words[i].typos) : i \in 1..Len(words) }),
         <<>>)

\* Typo::next with a reset that sets first_iteration again.
Typo_next_reset(self, words) ==
    IF self.first_iteration
    THEN Flow("Continue", {}, [self EXCEPT !.first_iteration = FALSE], words)
    ELSE LET allowed == self.typo_allowed + 1
         IN IF self.max_typos <= allowed
            THEN Flow("Break", {},
                      [self EXCEPT !.typo_allowed = 0, !.first_iteration = TRUE], words)
            ELSE Flow("Continue", {}, [self EXCEPT !.typo_allowed = allowed], words)

\* Typo::next
Typo_next(self, words) ==
    IF self.first_iteration
    THEN Flow("Continue", {}, [self EXCEPT !.first_iteration = FALSE], words)
    ELSE LET allowed == self.typo_allowed + 1
         IN IF self.max_typos <= allowed
            THEN Flow("Break", {}, [self EXCEPT !.typo_allowed = 0], words)
            ELSE Flow("Continue", {}, [self EXCEPT !.typo_allowed = allowed], words)

\* Typo::current_results with a union over the words.
Typo_current_results_any(self, words) ==
    SeqUnion([i \in 1..Len(words) |->
                 SeqUnion(Take(words[i].typos, self.typo_allowed))])

\* Typo::current_results taking typos[0..=typo_allowed].
Typo_current_results_upto(self, words) ==
    SeqIntersection([i \in 1..Len(words) |->
                        SeqUnion(Take(words[i].typos, self.typo_allowed + 1))])

\* Typo::current_results: typos.iter().take(typo_allowed) of every word.
Typo_current_results(self, words) ==
    SeqIntersection([i \in 1..Len(words) |->
                        SeqUnion(Take(words[i].typos, self.typo_allowed))])

\* Exact::new
Exact_new == Rule("Exact", FALSE, 0, 0, <<>>)

\* Exact::current_results
Exact_current_results(self, words) ==
    IF self.buckets = <<>> THEN {} ELSE self.buckets[1]

\* RankingRuleImpl::current_results of a boxed rule.
current_results(rule, words) ==
    CASE rule.kind = "Word" -> Word_current_results(rule, words)
      [] rule.kind = "Typo" -> Typo_current_results(rule, words)
      [] rule.kind = "Exact" -> Exact_current_results(rule, words)

RECURSIVE SortByIndex(_, _)
\* words.sort_by_key(|word| word.index)
SortByIndex(sorted, words) ==
    IF words = <<>> THEN sorted
    ELSE LET w == Head(words)
             before == { i \in 1..Len(sorted) : sorted[i].index <= w.index }
             n == IF before = {} THEN 0 ELSE SetMax(before)
         IN SortByIndex(
                SubSeq(sorted, 1, n) \o <<w>> \o SubSeq(sorted, n + 1, Len(sorted)),
                Tail(words))

RECURSIVE ExactWalk(_, _, _, _)
\* The loop of Exact::next over the tokens of one document, from token
\* position pos on.  words is the peekable iterator over the words in index
\* order: the loop only peeks at it and never advances it.
ExactWalk(words, tokens, pos, distance) ==
    IF pos >= Len(tokens) THEN distance
    ELSE IF words = <<>> THEN distance
    ELSE IF Head(words).index = pos
         THEN ExactWalk(words, tokens, pos + 1,
                        distance + DamerauLevenshtein(Head(words).original, tokens[pos + 1]))
         ELSE ExactWalk(words, tokens, pos + 1, distance)

\* The bucket (0..=3) Exact::next puts a document id in.
ExactBucket(words, index, id) ==
    Min2(ExactWalk(SortByIndex(<<>>, words),
                   split_whitespace(index.documents[id + 1]), 0, 0), 3)

\* The buckets of Exact::next without self.buckets.retain(..).
ExactBuckets_unretained(current, words, index) ==
    LET idx == [id \in current |-> ExactBucket(words, index, id)]
    IN Reverse([d \in 1..4 |-> { id \in current : idx[id] = d - 1 }])

\* The buckets of Exact::next without self.buckets.reverse().
ExactBuckets_unreversed(current, words, index) ==
    LET idx == [id \in current |-> ExactBucket(words, index, id)]
    IN RetainNonEmpty([d \in 1..4 |-> { id \in current : idx[id] = d - 1 }])

\* The buckets Exact::next computes from the ids of current: one per
\* distance, the empty ones dropped, the lowest distance last.
ExactBuckets(current, words, index) ==
    LET idx == [id \in current |-> ExactBucket(words, index, id)]
    IN Reverse(RetainNonEmpty([d \in 1..4 |-> { id \in current : idx[id] = d - 1 }]))

\* Exact::next taking a missing predecessor for one without results.
Exact_next_lenient(self, prev, words, index) ==
    LET buckets == IF self.buckets = <<>> /\ prev # <<>>
                   THEN ExactBuckets(current_results(prev[1], words), words, index)
                   ELSE self.buckets
    IN IF buckets = <<>>
       THEN Flow("Break", {}, [self EXCEPT !.buckets = <<>>], words)
       ELSE Flow("Break", buckets[Len(buckets)],
                 [self EXCEPT !.buckets = SubSeq(buckets, 1, Len(buckets) - 1)],
                 words)

\* Exact::next reading its predecessor once: first_iteration records that it
\* has read it.
Exact_next_once(self, prev, words, index) ==
    IF self.buckets = <<>> /\ prev = <<>>
    THEN Flow("Panic", {}, self, words)
    ELSE LET buckets == IF self.buckets = <<>> /\ ~self.first_iteration
                        THEN ExactBuckets(current_results(prev[1], words), words, index)
                        ELSE self.buckets
         IN IF buckets = <<>>
            THEN Flow("Break", {},
                      [self EXCEPT !.buckets = <<>>, !.first_iteration = TRUE], words)
            ELSE Flow("Break", buckets[Len(buckets)],
                      [self EXCEPT !.buckets = SubSeq(buckets, 1, Len(buckets) - 1),
                                   !.first_iteration = TRUE],
                      words)

\* Exact::next; prev is <<>> for None and <<rule>> for Some(rule).
Exact_next(self, prev, words, index) ==
    IF self.buckets = <<>> /\ prev = <<>>
    THEN Flow("Panic", {}, self, words)
    ELSE LET buckets == IF self.buckets = <<>>
                        THEN ExactBuckets(current_results(prev[1], words), words, index)
                        ELSE self.buckets
         IN IF buckets = <<>>
            THEN Flow("Break", {}, [self EXCEPT !.buckets = <<>>], words)
            ELSE Flow("Break", buckets[Len(buckets)],
                      [self EXCEPT !.buckets = SubSeq(buckets, 1, Len(buckets) - 1)],
                      words)

\* Exact::cleanup
Exact_cleanup(self, used) ==
    [self EXCEPT !.buckets = [k \in 1..Len(@) |-> @[k] \ used]]

\* RankingRuleImpl::next of a boxed rule.
rule_next(rule, prev, words, index) ==
    CASE rule.kind = "Word" -> Word_next(rule, words)
      [] rule.kind = "Typo" -> Typo_next(rule, words)
      [] rule.kind = "Exact" -> Exact_next(rule, prev, words, index)

\* RankingRuleImpl::cleanup of a boxed rule (the default does nothing).
rule_cleanup(rule, used) ==
    IF rule.kind = "Exact" THEN Exact_cleanup(rule, used) ELSE rule

(***************************************************************************)
(* The inputs.                                                             *)
(***************************************************************************)
\* The bounds of the model.
MaxWords == 3

MaxRules == 2

MaxLimit == 3

RECURSIVE Join(_)
\* The words of a sequence, separated by one space.
Join(ws) ==
    IF ws = <<>> THEN <<>>
    ELSE IF Len(ws) = 1 THEN Head(ws)
    ELSE Head(ws) \o <<32>> \o Join(Tail(ws))

\* The indexed documents:
\*   0 "abc dcd"   1 "abc cda"   2 "abd dcc"   3 "abc abd"   4 "Dcd"   5 "ABC"
\*   6 "ghijxy"    7 "efghij"
Documents ==
    << Join(<< <<97, 98, 99>>, <<100, 99, 100>> >>),
       Join(<< <<97, 98, 99>>, <<99, 100, 97>> >>),
       Join(<< <<97, 98, 100>>, <<100, 99, 99>> >>),
       Join(<< <<97, 98, 99>>, <<97, 98, 100>> >>),
       <<68, 99, 100>>,
       <<65, 66, 67>>,
       <<103, 104, 105, 106, 120, 121>>,
       <<101, 102, 103, 104, 105, 106>> >>

\* The words queries are made of: "abc" and "Dcd".
QueryTokens == { <<97, 98, 99>>, <<68, 99, 100>> }

\* Queries without any word that survives normalization: " ", "!", "\t! ?",
\* a query with such a word between two others, "abc ! Dcd", and a query of
\* one word of six letters, "efghij".
OtherQueries ==
    { <<32>>, <<33>>, <<9, 33, 32, 63>>,
      Join(<< <<97, 98, 99>>, <<33>>, <<68, 99, 100>> >>),
      <<101, 102, 103, 104, 105, 106>> }

QueryInputs == { Join(ws) : ws \in SeqsUpTo(QueryTokens, MaxWords) } \cup OtherQueries

\* enum RankingRule
RankingRule == {"Word", "Typo", "Exact"}

\* Search::new's ranking rules.
DefaultRankingRules == <<"Word", "Typo", "Exact">>

\* The stacks of up to MaxRules rules, Search::new's, and one with Typo as
\* the tail behind an Exact.
RuleStacks ==
    SeqsUpTo(RankingRule, MaxRules)
        \cup {DefaultRankingRules, <<"Word", "Exact", "Typo">>}

\* Search::new's limit.
DefaultLimit == 10

Limits == (0..MaxLimit) \cup {DefaultLimit}

\* struct Search
Searches ==
    [input : QueryInputs, limit : Limits, ranking_rules : RuleStacks]

(***************************************************************************)
(* Index::search.                                                          *)
(***************************************************************************)
VARIABLES
    index,                  \* self: the Index searched
    search,                 \* the Search
    overflow_checks,        \* whether the build panics on integer overflow: "on" or
                            \* "off", and "unknown" until the run has shown which
    pc,                     \* "start", "candidates" (get_candidates has returned),
                            \* "loop" (at the head of the while loop), "done", "panic"
    candidates,             \* Vec<WordCandidate>
    ranking_rules,          \* Vec<Box<dyn RankingRuleImpl>>
    current_ranking_rule,   \* the cursor
    res,                    \* the buckets
    ret,                    \* the Vec<&str> returned
    first_candidates,       \* history: the candidates as get_candidates returned them
    call                    \* a call of a function of the library on its own: the
                            \* function, how far the call is, its argument, the
                            \* bytes it writes or reads, and what it returns

vars == <<index, search, overflow_checks, pc, candidates, ranking_rules,
          current_ranking_rule, res, ret, first_candidates, call>>

\* No call of a function on its own: a search is what runs.
NoCall == [op |-> "search", stage |-> "none", arg |-> <<>>, damaged |-> FALSE,
           bytes |-> <<>>, out |-> <<>>]

Init ==
    /\ index = new_in_memory(Documents).value
    /\ search \in Searches
    /\ overflow_checks = "unknown"
    /\ pc = "start"
    /\ candidates = <<>>
    /\ ranking_rules = <<>>
    /\ current_ranking_rule = 0
    /\ res = <<>>
    /\ ret = <<>>
    /\ first_candidates = <<>>
    /\ call = NoCall

RECURSIVE BuildRules(_, _, _)
\* The map over search.ranking_rules that builds the rule instances, in
\* order: Word::new sorts the candidates it is given.
BuildRules(kinds, rules, words) ==
    IF kinds = <<>> THEN [rules |-> rules, words |-> words]
    ELSE CASE Head(kinds) = "Word" ->
                  LET w == Word_new(words)
                  IN BuildRules(Tail(kinds), Append(rules, w.self), w.words)
           [] Head(kinds) = "Typo" ->
                  BuildRules(Tail(kinds), Append(rules, Typo_new(words)), words)
           [] Head(kinds) = "Exact" ->
                  BuildRules(Tail(kinds), Append(rules, Exact_new), words)

\* The result without take(search.limit).
Collect_untaken(buckets) ==
    LET ids == Flatten(buckets)
    IN [i \in 1..Len(ids) |-> index.documents[ids[i] + 1]]

\* The value search returns: the documents of the ids of the buckets, in
\* bucket order and ascending within a bucket, cut to the limit.
Collect(buckets) ==
    LET ids == Flatten(buckets)
    IN Take([i \in 1..Len(ids) |-> index.documents[ids[i] + 1]], search.limit)

\* The while condition: the buckets hold fewer ids than the limit.
LoopRuns == SumLen(res) < search.limit

\* ranking_rules.get(current_ranking_rule - 1) where the subtraction wraps:
\* at cursor 0 the position is usize::MAX, past the end of any Vec.
PrevRule ==
    IF current_ranking_rule = 0 THEN <<>>
    ELSE <<ranking_rules[current_ranking_rule]>>

\* The next! macro, where it neither fails to index the rule nor overflows.
NextOutcome ==
    rule_next(ranking_rules[current_ranking_rule + 1], PrevRule, candidates, index)

\* ranking_rules after the rule at the cursor has run.
RulesAfter(out) ==
    [ranking_rules EXCEPT ![current_ranking_rule + 1] = out.self]

\* The tail test against ranking_rules_len.
IsTail_len == current_ranking_rule = Len(ranking_rules)

\* if current_ranking_rule == ranking_rules_len - 1
IsTail == current_ranking_rule = Len(ranking_rules) - 1

\* The loop body is entered and the next! macro reaches the call of next: the
\* rule at the cursor exists, and current_ranking_rule - 1 does not panic (at
\* cursor 0 it overflows, and the build is then one that wraps).
NextCalled ==
    /\ pc = "loop"
    /\ LoopRuns
    /\ Len(ranking_rules) > 0
    /\ ~(overflow_checks = "on" /\ current_ranking_rule = 0)
    /\ overflow_checks' = IF current_ranking_rule = 0 THEN "off" ELSE overflow_checks

\* let mut candidates = self.get_candidates(&search)
SearchStart ==
    /\ pc = "start"
    /\ candidates' = get_candidates(index, search)
    /\ first_candidates' = candidates'
    /\ pc' = "candidates"
    /\ UNCHANGED <<call, index, search, overflow_checks, ranking_rules,
                   current_ranking_rule, res, ret>>

\* The candidates are empty: search returns before building any rule.
SearchNoCandidates ==
    /\ pc = "candidates"
    /\ Len(candidates) = 0
    /\ pc' = "done"
    /\ ret' = <<>>
    /\ UNCHANGED <<call, index, search, overflow_checks, candidates, ranking_rules,
                   current_ranking_rule, res, first_candidates>>

\* The construction of the rules.
SearchRules ==
    /\ pc = "candidates"
    /\ Len(candidates) # 0
    /\ LET built == BuildRules(search.ranking_rules, <<>>, candidates)
       IN /\ candidates' = built.words
          /\ ranking_rules' = built.rules
    /\ current_ranking_rule' = 0
    /\ pc' = "loop"
    /\ UNCHANGED <<call, index, search, overflow_checks, res, ret, first_candidates>>

\* The while condition fails: the result is collected.
LimitReached ==
    /\ pc = "loop"
    /\ ~LoopRuns
    /\ ret' = Collect(res)
    /\ pc' = "done"
    /\ UNCHANGED <<call, index, search, overflow_checks, candidates, ranking_rules,
                   current_ranking_rule, res, first_candidates>>

\* ranking_rules[current_ranking_rule] on a stack without rules.
PanicNoRule ==
    /\ pc = "loop"
    /\ LoopRuns
    /\ Len(ranking_rules) = 0
    /\ pc' = "panic"
    /\ UNCHANGED <<call, index, search, overflow_checks, candidates, ranking_rules,
                   current_ranking_rule, res, ret, first_candidates>>

\* current_ranking_rule - 1 at cursor 0 in a build that checks overflow.
PanicOverflow ==
    /\ pc = "loop"
    /\ LoopRuns
    /\ Len(ranking_rules) > 0
    /\ overflow_checks # "off"
    /\ current_ranking_rule = 0
    /\ overflow_checks' = "on"
    /\ pc' = "panic"
    /\ UNCHANGED <<call, index, search, candidates, ranking_rules,
                   current_ranking_rule, res, ret, first_candidates>>

\* prev.unwrap() in Exact::next without a predecessor.
PanicUnwrap ==
    /\ NextCalled
    /\ NextOutcome.flow = "Panic"
    /\ pc' = "panic"
    /\ UNCHANGED <<call, index, search, candidates, ranking_rules,
                   current_ranking_rule, res, ret, first_candidates>>

\* Continue at the last rule: its current results are the bucket.
ContinueTail ==
    /\ NextCalled
    /\ IsTail
    /\ LET out == NextOutcome
           bucket == current_results(out.self, out.words)
       IN /\ out.flow = "Continue"
          /\ candidates' = cleanup(bucket, out.words)
          /\ ranking_rules' = [i \in 1..Len(ranking_rules) |->
                                  rule_cleanup(RulesAfter(out)[i], bucket)]
          /\ res' = Append(res, bucket)
    /\ UNCHANGED <<call, index, search, pc, current_ranking_rule, ret, first_candidates>>

\* Continue at another rule: the cursor advances.
ContinueAdvance ==
    /\ NextCalled
    /\ ~IsTail
    /\ LET out == NextOutcome
       IN /\ out.flow = "Continue"
          /\ candidates' = out.words
          /\ ranking_rules' = RulesAfter(out)
    /\ current_ranking_rule' = current_ranking_rule + 1
    /\ UNCHANGED <<call, index, search, pc, res, ret, first_candidates>>

\* Break with an empty bucket at the first rule: the loop is left and the
\* result collected.
BreakEmptyExit ==
    /\ NextCalled
    /\ current_ranking_rule = 0
    /\ LET out == NextOutcome
       IN /\ out.flow = "Break"
          /\ out.bucket = {}
          /\ candidates' = out.words
          /\ ranking_rules' = RulesAfter(out)
    /\ ret' = Collect(res)
    /\ pc' = "done"
    /\ UNCHANGED <<call, index, search, current_ranking_rule, res, first_candidates>>

\* Break with an empty bucket at another rule: the cursor goes back.
BreakEmptyBack ==
    /\ NextCalled
    /\ current_ranking_rule # 0
    /\ LET out == NextOutcome
       IN /\ out.flow = "Break"
          /\ out.bucket = {}
          /\ candidates' = out.words
          /\ ranking_rules' = RulesAfter(out)
          /\ res' = Append(res, out.bucket)
    /\ current_ranking_rule' = current_ranking_rule - 1
    /\ UNCHANGED <<call, index, search, pc, ret, first_candidates>>

\* Break with a bucket: it is pushed.
BreakBucket ==
    /\ NextCalled
    /\ LET out == NextOutcome
       IN /\ out.flow = "Break"
          /\ out.bucket # {}
          /\ candidates' = cleanup(out.bucket, out.words)
          /\ ranking_rules' = [i \in 1..Len(ranking_rules) |->
                                  rule_cleanup(RulesAfter(out)[i], out.bucket)]
          /\ res' = Append(res, out.bucket)
    /\ UNCHANGED <<call, index, search, pc, current_ranking_rule, ret, first_candidates>>

Next ==
    \/ SearchStart
    \/ SearchNoCandidates
    \/ SearchRules
    \/ LimitReached
    \/ PanicNoRule
    \/ PanicOverflow
    \/ PanicUnwrap
    \/ ContinueTail
    \/ ContinueAdvance
    \/ BreakEmptyExit
    \/ BreakEmptyBack
    \/ BreakBucket

Spec == Init /\ [][Next]_vars

(***************************************************************************)
(* The functions of the library called on their own: normalize on short    *)
(* strings, and construct followed by from_bytes on short document lists,  *)
(* the bytes between the two left whole, cut short, or with a byte         *)
(* overwritten.                                                            *)
(***************************************************************************)
MaxChars == 3

\* The characters strings are made of: "A", "b", "1", "!", " ", a tab,
\* e-acute, E-acute, u-diaeresis and the line separator U+2028.
Chars == {65, 98, 49, 33, 32, 9, 233, 201, 252, 8232}

Strings == SeqsUpTo(Chars, MaxChars)

\* The document lists indexed: of the documents "ab b", "Ab", "e-acute! b",
\* "!", "" and "abcd abc".
DocumentLists ==
    LET d1 == <<97, 98, 32, 98>>
        d2 == <<65, 98>>
        d3 == <<233, 33, 32, 98>>
        d4 == <<33>>
        d5 == <<>>
        d6 == <<97, 98, 99, 100, 32, 97, 98, 99>>
    IN { <<>>, <<d1>>, <<d2, d1>>, <<d1, d3>>, <<d4>>, <<d5, d2>>, <<d1, d1>>,
         <<d3, d4, d2>>, <<d6, d2>> }

\* The queries get_candidates is called with on its own: "abc ab", "abc",
\* "ab abc", "bac abcd", "b" and "!".
CandidateQueries ==
    { <<97, 98, 99, 32, 97, 98>>, <<97, 98, 99>>, <<97, 98, 32, 97, 98, 99>>,
      <<98, 97, 99, 32, 97, 98, 99, 100>>, <<98>>, <<33>> }

searchvars == <<index, search, overflow_checks, pc, candidates, ranking_rules,
                current_ranking_rule, res, ret, first_candidates>>

NewCall(op, arg) ==
    [op |-> op, stage |-> "call", arg |-> arg, damaged |-> FALSE,
     bytes |-> <<>>, out |-> <<>>]

CallInit ==
    /\ index = [documents |-> <<>>, bitmaps |-> <<>>, fst |-> <<>>]
    /\ search = [input |-> <<>>, limit |-> DefaultLimit,
                 ranking_rules |-> DefaultRankingRules]
    /\ overflow_checks = "unknown"
    /\ pc = "done"
    /\ candidates = <<>>
    /\ ranking_rules = <<>>
    /\ current_ranking_rule = 0
    /\ res = <<>>
    /\ ret = <<>>
    /\ first_candidates = <<>>
    /\ call \in { NewCall("normalize", s) : s \in Strings }
                \cup { NewCall("from_bytes", d) : d \in DocumentLists }

\* normalize(arg)
CallNormalize ==
    /\ call.op = "normalize"
    /\ call.stage = "call"
    /\ call' = [call EXCEPT !.out = normalize(call.arg), !.stage = "returned"]
    /\ UNCHANGED searchvars

\* Index::construct(arg, &mut bytes)
CallConstruct ==
    /\ call.op = "from_bytes"
    /\ call.stage = "call"
    /\ call' = [call EXCEPT !.bytes = construct(call.arg), !.stage = "written"]
    /\ UNCHANGED searchvars

\* The bytes are cut short.
CallTruncate ==
    /\ call.stage = "written"
    /\ ~call.damaged
    /\ \E k \in 0..(Len(call.bytes) - 1) :
          call' = [call EXCEPT !.bytes = SubSeq(call.bytes, 1, k), !.damaged = TRUE]
    /\ UNCHANGED searchvars

\* A byte is overwritten by 0xFF, a byte that no UTF-8 string contains.
CallCorrupt ==
    /\ call.stage = "written"
    /\ ~call.damaged
    /\ \E k \in 1..Len(call.bytes) :
          call' = [call EXCEPT !.bytes[k] = 255, !.damaged = TRUE]
    /\ UNCHANGED searchvars

\* Index::from_bytes(&bytes)
CallFromBytes ==
    /\ call.stage = "written"
    /\ call' = [call EXCEPT !.out = from_bytes(call.bytes), !.stage = "returned"]
    /\ UNCHANGED searchvars

\* index.get_candidates(&search) on the index read from bytes left whole.
CallGetCandidates ==
    /\ call.op = "from_bytes"
    /\ call.stage = "returned"
    /\ ~call.damaged
    /\ call.out.tag = "Some"
    /\ \E input \in CandidateQueries :
          call' = [call EXCEPT
                      !.op = "get_candidates",
                      !.arg = input,
                      !.out = get_candidates(move_in_memory(call.out.value),
                                             [input |-> input])]
    /\ UNCHANGED searchvars

CallNext ==
    \/ CallNormalize
    \/ CallConstruct
    \/ CallTruncate
    \/ CallCorrupt
    \/ CallFromBytes
    \/ CallGetCandidates

CallSpec == CallInit /\ [][CallNext]_vars

(***************************************************************************)
(* The properties.                                                         *)
(***************************************************************************)
\* The union of every typo bitmap of every candidate of a list.
AllTypos(words) == UNION { SeqUnion(words[i].typos) : i \in 1..Len(words) }

\* C1: the buckets pushed to res are pairwise disjoint, and every id in them
\* is in a typo bitmap of a candidate as get_candidates returned it.
C1_DisjointBuckets ==
    /\ \A i, j \in 1..Len(res) : i # j => res[i] \cap res[j] = {}
    /\ SeqUnion(res) \subseteq AllTypos(first_candidates)

\* Two buckets with ids have been pushed, the later one after a cleanup.
C1_Witness ==
    \E i, j \in 1..Len(res) : i < j /\ res[i] # {} /\ res[j] # {}

\* C2: the list search returns has at most limit elements (limit 0 included).
C2_LimitHonored == pc = "done" => Len(ret) <= search.limit

\* search has returned a list cut to the limit: the buckets held more ids.
C2_Witness ==
    /\ pc = "done"
    /\ search.limit > 0
    /\ Len(ret) = search.limit
    /\ SumLen(res) > search.limit

\* C3: with a rule stack in which Exact is not the first rule, the driver loop
\* exits because the buckets reach the limit or because the rule at cursor 0
\* returns Break(empty), and search returns: the loop is never left by a panic.
C3_LoopExits ==
    (search.ranking_rules = <<>> \/ search.ranking_rules[1] # "Exact")
        => pc # "panic"

\* The documents of a list of ids.
DocsOf(ids) == [i \in 1..Len(ids) |-> index.documents[ids[i] + 1]]

\* The documents that match the query word at position i of the query: the
\* union of the typo bitmaps get_candidates gave it.
Matching(i) == SeqUnion(first_candidates[i].typos)

\* The documents that match every query word of a set of positions.
MatchingAll(S) == { id \in AllTypos(first_candidates) : \A i \in S : id \in Matching(i) }

RECURSIVE WordBucketLists(_, _)
\* The bucket lists of the Word heuristic for the remaining query words S
\* (positions in the query): the documents not yet returned that match every
\* word of S, then the lists for S without a word of the highest document
\* frequency (one list for each such word), until no word is left.
WordBucketLists(S, returned) ==
    IF S = {} THEN { <<>> }
    ELSE LET bucket == MatchingAll(S) \ returned
             highest == SetMax({ Cardinality(Matching(i)) : i \in S })
         IN UNION { { <<bucket>> \o rest :
                        rest \in WordBucketLists(S \ {i}, returned \cup bucket) } :
                    i \in { j \in S : Cardinality(Matching(j)) = highest } }

\* C4: with rule stack [Word], search returns (cut to the limit) first the
\* documents that match every query word, then, each time the remaining word
\* with the highest document frequency is dropped, the documents not yet
\* returned that match all the remaining words.
C4_WordOrder ==
    (pc = "done" /\ search.ranking_rules = <<"Word">>)
        => \E E \in WordBucketLists(1..Len(first_candidates), {}) :
               ret = Take(DocsOf(Flatten(E)), search.limit)

\* A [Word] search has returned documents of two buckets, the second one
\* after a query word that was not the last of the query was dropped.
C4_Witness ==
    /\ pc = "done"
    /\ search.ranking_rules = <<"Word">>
    /\ Len(res) >= 2 /\ res[1] # {} /\ res[2] # {}
    /\ Len(ret) > Cardinality(res[1])
    /\ Len(first_candidates) >= 2
    /\ Cardinality(Matching(1)) > Cardinality(Matching(Len(first_candidates)))

\* The candidate get_candidates returned for the query word of a candidate.
FirstOf(word) ==
    CHOOSE c \in { first_candidates[i] : i \in 1..Len(first_candidates) } :
        c.index = word.index

\* The documents that match every word of a list of remaining query words.
Universe(words) ==
    { id \in AllTypos(first_candidates) :
        \A i \in 1..Len(words) : id \in SeqUnion(FirstOf(words[i]).typos) }

\* The typo cost of a document for a query word: the smallest k such that the
\* document is in the word's typos[k].
Cost(word, id) ==
    SetMin({ k \in 0..(Len(FirstOf(word).typos) - 1) : id \in FirstOf(word).typos[k + 1] })

RECURSIVE SumCost(_, _)
\* The total typo cost of a document: the sum of its costs over the words.
SumCost(words, id) ==
    IF words = <<>> THEN 0
    ELSE Cost(Head(words), id) + SumCost(Tail(words), id)

\* The highest typo cost of a document over the words.
MaxCost(words, id) == SetMax({ Cost(words[i], id) : i \in 1..Len(words) })

\* Typo is in the stack.
TypoInStack ==
    \E i \in 1..Len(search.ranking_rules) : search.ranking_rules[i] = "Typo"

\* Typo is in the stack and the stack has no Exact, or its first Exact comes
\* directly after a Typo: Exact never returns Continue, so no rule behind it
\* is run, and it buckets the current results of the rule before it only.
TypoOrders ==
    /\ TypoInStack
    /\ \A i \in 1..Len(search.ranking_rules) :
          (/\ search.ranking_rules[i] = "Exact"
           /\ \A j \in 1..(i - 1) : search.ranking_rules[j] # "Exact")
              => (i > 1 /\ search.ranking_rules[i - 1] = "Typo")

\* A step of the driver that pushes a bucket.
Emits == Len(res') = Len(res) + 1

\* C5: with Typo in the stack, when a bucket is emitted, every document that
\* matches the remaining query words with a lower total typo cost (the sum
\* over the words) than a document of the bucket is in that bucket or in an
\* earlier one.
C5_TotalCostOrder ==
    [][(TypoInStack /\ Emits) =>
        \A B \in res'[Len(res')] \cap Universe(candidates') :
            \A A \in Universe(candidates') :
                SumCost(candidates', A) < SumCost(candidates', B)
                    => A \in SeqUnion(res')]_vars

\* C5, with the highest cost over the words for the total and for a Typo
\* whose results are the ones emitted: with Typo in a stack that has no Exact
\* or whose first Exact comes directly after a Typo, when a bucket is emitted,
\* every document that matches the remaining query words with a lower
\* highest-cost than a document of the bucket is in that bucket or in an
\* earlier one.
C5_MaxCostOrder ==
    [][(TypoOrders /\ Emits) =>
        \A B \in res'[Len(res')] \cap Universe(candidates') :
            \A A \in Universe(candidates') :
                MaxCost(candidates', A) < MaxCost(candidates', B)
                    => A \in SeqUnion(res')]_vars

\* With such a stack and every query word remaining, a document has been emitted in an earlier bucket than one of a lower total
\* but a higher highest cost.
C5_Witness ==
    /\ TypoOrders
    /\ Len(candidates) = Len(first_candidates)
    /\ \E i, j \in 1..Len(res) :
          /\ i < j
          /\ \E A \in res[i], B \in res[j] :
                /\ MaxCost(candidates, A) < MaxCost(candidates, B)
                /\ SumCost(candidates, A) > SumCost(candidates, B)

\* A step of the driver that runs cleanup for the bucket it pushes (Continue
\* at the tail, or Break with a bucket): the cursor stays.
CleanupStep == Emits /\ current_ranking_rule' = current_ranking_rule

\* The typo bitmaps of every candidate of a list are pairwise disjoint.
TyposDisjoint(words) ==
    \A i \in 1..Len(words) : \A k, l \in 1..Len(words[i].typos) :
        k # l => words[i].typos[k] \cap words[i].typos[l] = {}

\* C6: after the driver has run cleanup for an emitted bucket, the bitmaps
\* typos[0], typos[1], typos[2], typos[3] of every WordCandidate are pairwise
\* disjoint.
C6_TyposDisjoint ==
    [][(CleanupStep /\ res'[Len(res')] # {}) => TyposDisjoint(candidates')]_vars

\* C6, for what cleanup does: no typo bitmap of any remaining WordCandidate
\* holds an id of an emitted bucket (the bitmaps of a candidate may share the
\* ids not yet emitted).
C6_TyposCleaned ==
    \A i \in 1..Len(candidates) : \A k \in 1..Len(candidates[i].typos) :
        candidates[i].typos[k] \cap SeqUnion(res) = {}

\* A bucket with ids has been emitted and cleaned out of a remaining
\* candidate that had its ids, and two bitmaps of a candidate still share an id.
C6_Witness ==
    /\ pc = "loop"
    /\ \E i \in 1..Len(candidates) :
          SeqUnion(res) \cap SeqUnion(FirstOf(candidates[i]).typos) # {}
    /\ ~TyposDisjoint(candidates)

\* C7: across every step of the driver loop no WordCandidate is added and
\* the candidates that stay keep their place, each typos[k] a subset of what
\* it was before the step.
C7_CandidatesShrink ==
    [][pc = "loop" =>
        /\ Len(candidates') <= Len(candidates)
        /\ \A i \in 1..Len(candidates') :
              /\ candidates'[i].index = candidates[i].index
              /\ Len(candidates'[i].typos) = Len(candidates[i].typos)
              /\ \A k \in 1..Len(candidates[i].typos) :
                    candidates'[i].typos[k] \subseteq candidates[i].typos[k]]_vars

\* The loop has dropped a candidate and taken ids out of a bitmap of one
\* that stays.
C7_Witness ==
    /\ pc = "loop"
    /\ 0 < Len(candidates) /\ Len(candidates) < Len(first_candidates)
    /\ \E i \in 1..Len(candidates) : \E k \in 1..Len(candidates[i].typos) :
          /\ candidates[i].typos[k] # FirstOf(candidates[i]).typos[k]
          /\ candidates[i].typos[k] # {}

\* The cursor goes up, by one, only on Continue at a rule that is not the
\* tail, and down, by one, only on Break(empty) at a cursor above 0.
CursorMoves ==
    /\ (current_ranking_rule' > current_ranking_rule) =>
           (/\ current_ranking_rule' = current_ranking_rule + 1
            /\ NextOutcome.flow = "Continue"
            /\ current_ranking_rule # Len(ranking_rules) - 1)
    /\ (current_ranking_rule' < current_ranking_rule) =>
           (/\ current_ranking_rule' = current_ranking_rule - 1
            /\ NextOutcome.flow = "Break"
            /\ NextOutcome.bucket = {}
            /\ current_ranking_rule > 0)

\* C8: in every state of the driver with a stack of k >= 1 rules the cursor
\* is in 0..k-1; it goes up, by one, only on Continue at a rule that is not
\* the tail, and down, by one, only on Break(empty) at a cursor above 0.
C8_CursorInRange ==
    /\ [](Len(search.ranking_rules) >= 1 =>
            (/\ current_ranking_rule >= 0
             /\ current_ranking_rule <= Len(search.ranking_rules) - 1))
    /\ [][CursorMoves]_vars

\* The cursor is back at 0 in a stack of several rules after it has been at
\* the second rule, which has run.
C8_Witness ==
    /\ pc = "loop"
    /\ Len(ranking_rules) >= 2
    /\ current_ranking_rule = 0
    /\ ranking_rules[2].kind \in {"Word", "Typo"}
    /\ ~ranking_rules[2].first_iteration

\* The query has no word that normalizes to a non-empty string.
NoWord == \A i \in 1..Len(split_whitespace(search.input)) :
              normalize(split_whitespace(search.input)[i]) = <<>>

\* C9: a query that is empty, whitespace-only, or whose every word
\* normalizes to the empty string yields no WordCandidate, and search
\* returns an empty result without building or running any ranking rule.
C9_EmptyQuery ==
    NoWord =>
        /\ pc \in {"start", "candidates", "done"}
        /\ candidates = <<>>
        /\ ranking_rules = <<>>
        /\ res = <<>>
        /\ ret = <<>>

\* search has returned for a query of punctuation or whitespace only, with
\* a limit and a rule stack that would have run the loop.
C9_Witness ==
    /\ pc = "done"
    /\ NoWord
    /\ search.input # <<>>
    /\ search.limit > 0
    /\ search.ranking_rules # <<>>

\* The place of an id of bucket b in the concatenation of the buckets: behind
\* every id of the buckets emitted before b and every lower id of b.
PlaceOf(b, id) ==
    SumLen(SubSeq(res, 1, b - 1)) + Cardinality({ x \in res[b] : x <= id })

\* C10: the list search returns has min(limit, total) elements, the element
\* at each place being the document of the id that has this place in the
\* concatenation of the emitted buckets in emission order, each bucket in
\* ascending id; no id gives two elements of the list.
C10_ResultIsPrefix ==
    pc = "done" =>
        /\ Len(ret) = Min2(search.limit, SumLen(res))
        /\ \A b \in 1..Len(res) : \A id \in res[b] :
              /\ PlaceOf(b, id) <= Len(ret) => ret[PlaceOf(b, id)] = index.documents[id + 1]
              /\ \A c \in 1..Len(res) : \A other \in res[c] :
                    PlaceOf(b, id) = PlaceOf(c, other) => (b = c /\ id = other)

\* search has returned several documents, cut to the limit inside the
\* bucket that came after another one.
C10_Witness ==
    /\ pc = "done"
    /\ Len(res) >= 2
    /\ Len(ret) >= 2
    /\ Len(ret) < SumLen(res)
    /\ SumLen(SubSeq(res, 1, Len(res) - 1)) < Len(ret)

\* from_bytes has returned for the bytes construct wrote for call.arg.
Loaded == call.op = "from_bytes" /\ call.stage = "returned" /\ ~call.damaged

\* The normalized words of the whitespace-separated tokens of a document.
WordsOf(document) ==
    { normalize(split_whitespace(document)[k]) :
        k \in 1..Len(split_whitespace(document)) }

\* C11: after construct followed by from_bytes, the fst maps every normalized
\* word of every token of every document to a bitmap that contains the
\* document; the bitmap of every fst key holds exactly the ids of the
\* documents with a token that normalizes to the key; the keys are unique and
\* every value is an index into the bitmaps.
C11_IndexComplete ==
    Loaded =>
        /\ call.out.tag = "Some"
        /\ LET documents == call.arg
               bitmaps == call.out.value.bitmaps
               fst == call.out.value.fst
           IN /\ \A e \in 1..Len(fst) :
                    /\ fst[e].value \in 0..(Len(bitmaps) - 1)
                    /\ bitmaps[fst[e].value + 1] =
                           { d - 1 : d \in { x \in 1..Len(documents) :
                                                fst[e].key \in WordsOf(documents[x]) } }
                    /\ \A f \in 1..Len(fst) : fst[f].key = fst[e].key => f = e
              /\ \A d \in 1..Len(documents) : \A w \in WordsOf(documents[d]) :
                    \E e \in 1..Len(fst) :
                        /\ fst[e].key = w
                        /\ fst[e].value \in 0..(Len(bitmaps) - 1)
                        /\ (d - 1) \in bitmaps[fst[e].value + 1]

\* An index of several keys has been read back, one of its words in two
\* documents, one of them under another spelling.
C11_Witness ==
    /\ Loaded
    /\ call.out.tag = "Some"
    /\ Len(call.out.value.fst) >= 2
    /\ \E e \in 1..Len(call.out.value.fst) :
          /\ Cardinality(call.out.value.bitmaps[call.out.value.fst[e].value + 1]) >= 2
          /\ \E d \in 1..Len(call.arg) :
                call.out.value.fst[e].key \notin
                    { split_whitespace(call.arg[d])[k] :
                        k \in 1..Len(split_whitespace(call.arg[d])) }
                /\ call.out.value.fst[e].key \in WordsOf(call.arg[d])

\* C12: from_bytes on the bytes construct wrote gives the index that
\* new_in_memory gives (so every search on the two is the same search): the
\* documents read back are the documents given, in their order, with the
\* bitmaps and the fst construct built, and the length prefix written at the
\* head of the bytes is one of 8 bytes, read back as the number of documents.
C12_RoundTrip ==
    Loaded =>
        /\ call.out.tag = "Some"
        /\ call.out.value.documents = call.arg
        /\ call.out.value.bitmaps =
               BuildLoop(SortedWords(call.arg), <<>>, <<>>, <<>>).bitmaps
        /\ call.out.value.fst = BuildLoop(SortedWords(call.arg), <<>>, <<>>, <<>>).fst
        /\ new_in_memory(call.arg) = Some(call.out.value)
        /\ SubSeq(call.bytes, 1, 8) = BigEndian(Len(call.arg), 8)
        /\ read_size_from_bytes(call.bytes)[1].size = Len(call.arg)

\* Several documents have been read back, one of them of more bytes than
\* characters.
C12_Witness ==
    /\ Loaded
    /\ call.out.tag = "Some"
    /\ Len(call.out.value.documents) >= 2
    /\ \E d \in 1..Len(call.out.value.documents) :
          Len(as_bytes(call.out.value.documents[d])) > Len(call.out.value.documents[d])

\* C13: from_bytes on the bytes of construct cut short (inside a length
\* prefix, a document, a serialized bitmap or the fst) returns None: neither
\* an index nor a panic.
C13_TruncatedIsNone ==
    (/\ call.op = "from_bytes"
     /\ call.stage = "returned"
     /\ Len(call.bytes) < Len(construct(call.arg)))
        => call.out.tag = "None"

\* C14: normalize of what normalize returns is the same string, and what it
\* returns holds lowercase ASCII letters and ASCII digits only.
C14_NormalizeIdempotent ==
    (call.op = "normalize" /\ call.stage = "returned") =>
        /\ normalize(call.out) = call.out
        /\ \A i \in 1..Len(call.out) : call.out[i] \in (97..122) \cup (48..57)

\* normalize has returned a string for one with an uppercase letter, an
\* accented letter and a character it drops.
C14_Witness ==
    /\ call.op = "normalize"
    /\ call.stage = "returned"
    /\ Len(call.out) = 2
    /\ Len(call.arg) = 3
    /\ \E i, j \in 1..Len(call.arg) : call.arg[i] \in 65..90 /\ call.arg[j] \in {233, 252}

\* Word is in the stack.
WordInStack ==
    \E i \in 1..Len(search.ranking_rules) : search.ranking_rules[i] = "Word"

\* The step in which the rules are built, Word::new among them.
WordBuilt == pc = "candidates" /\ pc' = "loop" /\ WordInStack

\* A step of the loop in which next is called on a Word rule and returns.
WordCalled ==
    /\ pc = "loop"
    /\ LoopRuns
    /\ Len(ranking_rules) > 0
    /\ ranking_rules[current_ranking_rule + 1].kind = "Word"
    /\ pc' # "panic"

\* The documents in the union of the typo bitmaps of every word of a list.
InEveryWord(words) ==
    { id \in AllTypos(words) : \A i \in 1..Len(words) : id \in SeqUnion(words[i].typos) }

\* What C15 says of a call of next on the Word rule at the cursor.
WordNextAsSaid ==
    LET self == ranking_rules[current_ranking_rule + 1]
        out == NextOutcome
        n == Len(candidates)
    IN /\ self.first_iteration =>
              /\ out.flow = "Continue"
              /\ out.words = candidates
       /\ ~self.first_iteration =>
              /\ out.words = SubSeq(candidates, 1, n - 1)
              /\ \A i \in 1..n : Frequency(candidates[i]) <= Frequency(candidates[n])
              /\ IF n <= 1 THEN out.flow = "Break" /\ out.bucket = {}
                 ELSE out.flow = "Continue"
       /\ ~out.self.first_iteration
       /\ current_results(out.self, out.words) = InEveryWord(out.words)

\* C15: Word::new leaves the candidates in ascending document frequency (the
\* same candidates, ordered); the first next returns Continue and removes
\* nothing; every later next removes the remaining candidate of the highest
\* document frequency and returns Continue, or Break(empty) when none is
\* left; current_results is the intersection over the remaining candidates
\* of the union of their typo bitmaps, empty without candidates.
C15_WordRule ==
    [][/\ WordBuilt =>
            /\ \A i, j \in 1..Len(candidates') :
                  i < j => Frequency(candidates'[i]) <= Frequency(candidates'[j])
            /\ Len(candidates') = Len(candidates)
            /\ \A i \in 1..Len(candidates) :
                  \E j \in 1..Len(candidates') : candidates'[j] = candidates[i]
       /\ WordCalled => WordNextAsSaid]_vars

\* A Word rule that got the query words in another order than that of their
\* frequency has removed a word and has words left.
C15_Witness ==
    /\ pc = "loop"
    /\ WordInStack
    /\ Len(first_candidates) >= 3
    /\ Len(candidates) = Len(first_candidates) - 1
    /\ \E i \in 1..(Len(first_candidates) - 1) :
          Frequency(first_candidates[i]) > Frequency(first_candidates[i + 1])

\* The next! macro is evaluated in this state: the loop body is entered and
\* the rule at the cursor exists.
MacroRuns == pc = "loop" /\ LoopRuns /\ Len(ranking_rules) > 0

\* C16: where the driver calls next, the predecessor position
\* current_ranking_rule - 1 is a position an unsigned cursor can hold, and no
\* search stops on the overflow of that subtraction.
C16_NoUnderflow ==
    /\ MacroRuns => current_ranking_rule - 1 >= 0
    /\ ~(pc = "panic" /\ overflow_checks = "on")

\* get_candidates has returned, on the index of the bytes of the call.
Candidated == call.op = "get_candidates" /\ call.stage = "returned"

\* The index a get_candidates call ran on.
CalledIndex == move_in_memory(from_bytes(call.bytes).value)

\* The postings of the dictionary terms within Levenshtein distance typo of
\* a word whose restricted Damerau-Levenshtein distance to the word, taken
\* over the whole term and clamped to 3, is k.
WholeTermPostings(self, normalized, typo, k) ==
    UNION { self.bitmaps[self.fst[e].value + 1] :
              e \in { e \in 1..Len(self.fst) :
                        /\ LevenshteinMatches(normalized, typo, self.fst[e].key)
                        /\ Min2(DamerauLevenshtein(normalized, self.fst[e].key), 3) = k } }

\* C17: for every query word but the last, typos[d] holds the postings of
\* the matched dictionary terms at distance d (restricted Damerau-Levenshtein,
\* clamped to 3) between the normalized word and the whole term.
C17_WholeTermDistance ==
    Candidated =>
        LET words == QueryWords(call.arg)
        IN \A i \in 1..(Len(words) - 1) : \A k \in 0..3 :
              call.out[i].typos[k + 1] =
                  WholeTermPostings(CalledIndex, words[i].normalized,
                                    Min2(Len(words[i].normalized) \div 3, 3), k)

\* C18: get_candidates leaves typos[k] empty for every k above
\* t = min(n / 3, 3), n the length of the normalized query word, for the
\* last word as for the others.
C18_TyposWithinAdmitted ==
    pc # "start" =>
        \A i \in 1..Len(first_candidates) :
            LET t == Min2(Len(first_candidates[i].normalized) \div 3, 3)
            IN \A k \in 0..3 : k > t => first_candidates[i].typos[k + 1] = {}

\* A step of the loop in which next is called on a Typo rule and returns.
TypoCalled ==
    /\ MacroRuns
    /\ ranking_rules[current_ranking_rule + 1].kind = "Typo"
    /\ pc' # "panic"

\* What C19 says of a call of next on the Typo rule at the cursor: the rule
\* before the call, the rule after it and what the call returned.
TypoNextAsSaid ==
    LET self == ranking_rules[current_ranking_rule + 1]
        after == ranking_rules'[current_ranking_rule + 1]
        out == NextOutcome
    IN /\ after.kind = "Typo"
       /\ ~after.first_iteration
       /\ after.max_typos = self.max_typos
       /\ out.words = candidates
       /\ self.first_iteration =>
              /\ after.typo_allowed = self.typo_allowed
              /\ out.flow = "Continue"
       /\ (~self.first_iteration /\ self.typo_allowed + 1 = 4) =>
              /\ after.typo_allowed = 0
              /\ out.flow = "Break"
              /\ out.bucket = {}
       /\ (~self.first_iteration /\ self.typo_allowed + 1 # 4) =>
              /\ after.typo_allowed = self.typo_allowed + 1
              /\ out.flow = "Continue"

\* Every Typo rule of the stack has max_typos 4 and typo_allowed in 0..3.
TypoInRange ==
    \A i \in 1..Len(ranking_rules) :
        ranking_rules[i].kind = "Typo" =>
            /\ ranking_rules[i].max_typos = 4
            /\ ranking_rules[i].typo_allowed \in 0..3
            /\ ranking_rules[i].first_iteration => ranking_rules[i].typo_allowed = 0

\* C19: the first call of Typo::next returns Continue and leaves typo_allowed;
\* every later call adds one to it and, when it reaches max_typos = 4, sets it
\* to 0 and returns Break(empty), otherwise returns Continue; between calls
\* typo_allowed is in 0..3; first_iteration stays false after the reset, so
\* the next call after a reset leaves typo_allowed at 1.
C19_TypoCycle ==
    /\ []TypoInRange
    /\ [][TypoCalled => TypoNextAsSaid]_vars

\* A Typo rule in its second cycle: it was reset, the Word rule before it
\* removed a word, and it was called again.
C19_Witness ==
    /\ pc = "loop"
    /\ search.ranking_rules = <<"Word", "Typo">>
    /\ Len(candidates) < Len(first_candidates)
    /\ current_ranking_rule = 1
    /\ ranking_rules[2].typo_allowed = 1
    /\ ~ranking_rules[2].first_iteration

\* The documents in one of the slots typos[0 .. allowed) of every word of a
\* list, the slots read from the candidates given by slots.
WithinTypos(all, words, slots(_), allowed) ==
    IF words = <<>> THEN {}
    ELSE { id \in all :
             \A i \in 1..Len(words) :
                 \E k \in 0..(allowed - 1) : id \in slots(words[i]).typos[k + 1] }

\* The candidate itself.
Itself(word) == word

\* Typo::current_results of every Typo rule of the stack is the intersection
\* over the candidates of the union of their typos[0 .. typo_allowed).
TypoResultsAsSaid ==
    \A i \in 1..Len(ranking_rules) :
        ranking_rules[i].kind = "Typo" =>
            current_results(ranking_rules[i], candidates) =
                WithinTypos(AllTypos(candidates), candidates, Itself,
                            ranking_rules[i].typo_allowed)

\* A step of the loop in which the tail rule is a Typo rule and its current
\* results are emitted as a bucket.
TypoTailEmits ==
    /\ TypoCalled
    /\ IsTail
    /\ NextOutcome.flow = "Continue"

\* The bucket of such a step: the documents not in an earlier bucket that are
\* in typos[0 .. a), as get_candidates filled them, of every remaining word,
\* a the allowance after the call; at allowance 0 it is empty.
TypoBucketAsSaid ==
    LET a == ranking_rules'[current_ranking_rule + 1].typo_allowed
        bucket == res'[Len(res')]
    IN /\ Len(res') = Len(res) + 1
       /\ bucket = WithinTypos(AllTypos(first_candidates) \ SeqUnion(res),
                               candidates, FirstOf, a)
       /\ a = 0 => bucket = {}

\* C20: Typo::current_results is the intersection over the remaining
\* candidates of the union of typos[0 .. typo_allowed); with Typo as tail the
\* bucket emitted at allowance a is the set of the documents not yet emitted
\* that match every remaining query word with at most a-1 typos, and the
\* bucket at allowance 0 is empty.
C20_TypoBucket ==
    /\ []TypoResultsAsSaid
    /\ [][TypoTailEmits => TypoBucketAsSaid]_vars

\* A tail Typo rule at allowance 2 has emitted a bucket with documents, for
\* two query words, after an earlier bucket with documents.
C20_Witness ==
    /\ pc = "loop"
    /\ Len(search.ranking_rules) > 0
    /\ search.ranking_rules[Len(search.ranking_rules)] = "Typo"
    /\ current_ranking_rule = Len(ranking_rules) - 1
    /\ ranking_rules[Len(ranking_rules)].typo_allowed = 2
    /\ Len(candidates) >= 2
    /\ Len(res) >= 2
    /\ res[Len(res)] # {}
    /\ SeqUnion(SubSeq(res, 1, Len(res) - 1)) # {}

\* A state in which the next! macro calls next on an Exact rule that has a
\* predecessor.
ExactRuns ==
    /\ MacroRuns
    /\ ranking_rules[current_ranking_rule + 1].kind = "Exact"
    /\ current_ranking_rule > 0

\* Exact::next is about to compute its buckets: it has none stored.
ExactComputes ==
    /\ ExactRuns
    /\ ranking_rules[current_ranking_rule + 1].buckets = <<>>

\* What Exact::next reads from its predecessor in a state of ExactRuns.
ExactCurrent == current_results(ranking_rules[current_ranking_rule], candidates)

RECURSIVE PositionalDistance(_, _)
\* The sum, over the words whose index is a position of tokens, of the
\* restricted Damerau-Levenshtein distance between the original form of the
\* word and the token at that position.
PositionalDistance(words, tokens) ==
    IF words = <<>> THEN 0
    ELSE (IF Head(words).index < Len(tokens)
          THEN DamerauLevenshtein(Head(words).original, tokens[Head(words).index + 1])
          ELSE 0) + PositionalDistance(Tail(words), tokens)

\* C21: when Exact builds its buckets, the distance of a document of current
\* is the sum over every remaining query word whose index is a token
\* position of the document of the restricted Damerau-Levenshtein distance
\* between the original word and the token there, clamped to 3.
C21_EveryWordCounts ==
    ExactComputes =>
        \A id \in ExactCurrent :
            ExactBucket(candidates, index, id) =
                Min2(PositionalDistance(candidates,
                                        split_whitespace(index.documents[id + 1])), 3)

\* A step of the loop in which next is called on an Exact rule that has a
\* predecessor.
ExactCalled == ExactRuns /\ pc' # "panic"

\* The buckets a call of Exact::next leaves to return, in the order in which
\* later calls return them, after the bucket it returns itself.
InPopOrder(out) ==
    (IF out.bucket = {} THEN <<>> ELSE <<out.bucket>>) \o Reverse(out.self.buckets)

\* The buckets of a list are not empty, pairwise disjoint, each of documents
\* of one clamped distance, the distances strictly increasing along the list.
RankedByDistance(buckets) ==
    /\ \A k \in 1..Len(buckets) : buckets[k] # {}
    /\ \A k, l \in 1..Len(buckets) : k # l => buckets[k] \cap buckets[l] = {}
    /\ \A k, l \in 1..Len(buckets) :
          \A a \in buckets[k] : \A b \in buckets[l] :
              /\ k = l => ExactBucket(candidates, index, a) = ExactBucket(candidates, index, b)
              /\ k < l => ExactBucket(candidates, index, a) < ExactBucket(candidates, index, b)

\* What C22 says of a call of next on the Exact rule at the cursor.
ExactNextAsSaid ==
    LET self == ranking_rules[current_ranking_rule + 1]
        out == NextOutcome
    IN /\ out.flow = "Break"
       /\ RankedByDistance(InPopOrder(out))
       /\ self.buckets = <<>> => SeqUnion(InPopOrder(out)) = ExactCurrent
       /\ self.buckets # <<>> =>
              /\ out.bucket # {}
              /\ InPopOrder(out) = Reverse(self.buckets)
       /\ ranking_rules'[current_ranking_rule + 1].buckets = out.self.buckets

\* The buckets stored in the Exact rules other than the one called in this
\* step stay as they are.
ExactStoredKept ==
    \A i \in 1..Len(ranking_rules) :
        (ranking_rules[i].kind = "Exact" /\ ~(ExactCalled /\ i = current_ranking_rule + 1))
            => /\ Len(ranking_rules') = Len(ranking_rules)
               /\ ranking_rules'[i].buckets = ranking_rules[i].buckets

\* C22: from a bucket computation of Exact to its next Break(empty), the
\* buckets its next calls return are not empty, pairwise disjoint, their
\* union is prev.current_results(words) as read at the computation, and they
\* come in strictly increasing order of clamped distance.
C22_ExactBuckets ==
    [][/\ ExactCalled => ExactNextAsSaid
       /\ pc = "loop" => ExactStoredKept]_vars

\* Exact has returned two buckets of one computation, one after the other,
\* and has none left.
C22_Witness ==
    /\ ExactRuns
    /\ ranking_rules[current_ranking_rule + 1].buckets = <<>>
    /\ Len(res) >= 2
    /\ res[Len(res)] # {}
    /\ res[Len(res) - 1] # {}
    /\ \A a \in res[Len(res) - 1] : \A b \in res[Len(res)] :
          ExactBucket(candidates, index, a) < ExactBucket(candidates, index, b)

\* A call of next on Exact after its first one in this search: every call
\* of next on Exact pushes a bucket to res, and none is pushed before the
\* first one, the rules before Exact returning Continue on their first call.
ExactCalledAgain == ExactCalled /\ res # <<>>

\* C23 as the claim has it: Exact reads prev.current_results(words) on its
\* first call only; a later call returns the last stored bucket, or an empty
\* one when none is stored.
C23_ReadsOnce ==
    [][ExactCalledAgain =>
          LET self == ranking_rules[current_ranking_rule + 1]
          IN IF self.buckets = <<>>
             THEN NextOutcome.bucket = {}
             ELSE NextOutcome.bucket = self.buckets[Len(self.buckets)]]_vars

\* C23, amended: Exact reads prev.current_results(words) on every call on
\* which it has no bucket stored, the first one and the later ones alike, and
\* returns and stores the buckets of what it read; on a call with buckets
\* stored it returns the last of them and keeps the others.
C23_ReadsWhenEmpty ==
    [][ExactCalled =>
          LET self == ranking_rules[current_ranking_rule + 1]
              out == NextOutcome
          IN IF self.buckets = <<>>
             THEN /\ SeqUnion(InPopOrder(out)) = ExactCurrent
                  /\ out.bucket = {} <=> ExactCurrent = {}
             ELSE /\ out.bucket = self.buckets[Len(self.buckets)]
                  /\ out.self.buckets = SubSeq(self.buckets, 1, Len(self.buckets) - 1)]_vars

\* Exact, called after its first call in the search with no bucket stored,
\* is about to read documents from its predecessor.
C23_Witness ==
    /\ ExactComputes
    /\ res # <<>>
    /\ ExactCurrent # {}

\* The search is one of C24: Exact is the first rule, the query has a
\* candidate and the limit is not 0.
ExactFirst ==
    /\ Len(search.ranking_rules) > 0
    /\ search.ranking_rules[1] = "Exact"
    /\ search.limit > 0
    /\ Len(first_candidates) > 0

\* C24: when Exact is the first rule of the stack, the query has a candidate
\* and the limit is above 0, the first call of next is made on Exact without
\* a predecessor and the search ends in a panic: it does not return.
C24_ExactFirstPanics ==
    /\ [](ExactFirst => pc # "done")
    /\ [][(ExactFirst /\ pc = "loop") =>
             /\ res = <<>>
             /\ current_ranking_rule = 0
             /\ ranking_rules[1].kind = "Exact"
             /\ PrevRule = <<>>
             /\ pc' = "panic"]_vars

\* The search has panicked in Exact::next, on the unwrap of the predecessor.
C24_Witness ==
    /\ ExactFirst
    /\ pc = "panic"
    /\ overflow_checks = "off"
    /\ Len(search.ranking_rules) = 1

\* The query words of the lowest document frequency at the start of the
\* search, as positions of first_candidates.
LowestFrequency ==
    { i \in 1..Len(first_candidates) :
        \A j \in 1..Len(first_candidates) :
            Frequency(first_candidates[i]) <= Frequency(first_candidates[j]) }

\* C25: with the stack [Word], every document emitted or returned is in the
\* union of the typo bitmaps of the query word that had the lowest document
\* frequency when the search started.
C25_LowestFrequencyWord ==
    (search.ranking_rules = <<"Word">> /\ pc # "start") =>
        IF first_candidates = <<>> THEN res = <<>> /\ ret = <<>>
        ELSE \E i \in LowestFrequency :
                LET ids == SeqUnion(first_candidates[i].typos)
                IN /\ SeqUnion(res) \subseteq ids
                   /\ \A k \in 1..Len(ret) :
                         ret[k] \in { index.documents[id + 1] : id \in ids }

\* A [Word] search has returned every document of its least frequent word
\* without reaching the limit, and none of the documents that match a more
\* frequent word only.
C25_Witness ==
    /\ search.ranking_rules = <<"Word">>
    /\ pc = "done"
    /\ Len(ret) < search.limit
    /\ Cardinality(LowestFrequency) = 1
    /\ \E i \in LowestFrequency :
          /\ Len(ret) = Frequency(first_candidates[i])
          /\ AllTypos(first_candidates) \ SeqUnion(first_candidates[i].typos) # {}

\* Typo is the last rule of the stack.
TypoIsTail ==
    /\ Len(search.ranking_rules) > 0
    /\ search.ranking_rules[Len(search.ranking_rules)] = "Typo"

\* Exact is in the stack.
ExactInStack ==
    \E i \in 1..Len(search.ranking_rules) : search.ranking_rules[i] = "Exact"

\* Every document of the bucket pushed in this step is, for every query word
\* that remains after the step, in typos[0], typos[1] or typos[2] of the word
\* as get_candidates filled them.
WithinTwoTypos ==
    \A id \in res'[Len(res')] :
        \A i \in 1..Len(candidates') :
            \E k \in 0..2 : id \in FirstOf(candidates'[i]).typos[k + 1]

\* C26 as the claim has it: with Typo as the tail of the stack, a document
\* is emitted only if it is in typos[0], typos[1] or typos[2] of every
\* remaining query word.
C26_TailWithinTwoTypos ==
    [][(TypoIsTail /\ Emits) => WithinTwoTypos]_vars

\* C26, amended: with Typo as the tail of the stack, a document is emitted by
\* Typo only if it is in typos[0], typos[1] or typos[2] of every remaining
\* query word, and Typo reads its results at an allowance of 3 at most; in a
\* stack without Exact no other rule emits a document.
C26_TypoWithinTwoTypos ==
    [][(TypoIsTail /\ Emits) =>
          /\ (TypoTailEmits \/ ~ExactInStack) => WithinTwoTypos
          /\ TypoTailEmits => ranking_rules'[current_ranking_rule + 1].typo_allowed <= 3
          /\ (~ExactInStack /\ res'[Len(res')] # {}) => TypoTailEmits]_vars

\* A search with Typo as the only rule has returned below its limit, with a
\* document emitted and another, in typos[3] only of the query word, left.
C26_Witness ==
    /\ search.ranking_rules = <<"Typo">>
    /\ pc = "done"
    /\ Len(ret) < search.limit
    /\ Len(ret) > 0
    /\ Len(first_candidates) = 1
    /\ first_candidates[1].typos[4] \ SeqUnion(SubSeq(first_candidates[1].typos, 1, 3)) # {}

\* The search runs Search::new's stack, [Word, Typo, Exact], in its loop.
DefaultStackRuns == search.ranking_rules = DefaultRankingRules /\ pc = "loop"

\* C27: with the stack [Word, Typo, Exact], Exact has no bucket stored
\* whenever a loop iteration starts with the cursor before it; every bucket
\* it returns is of documents that Typo, at its allowance of that moment,
\* gives for the candidates of that moment.
C27_ExactStartsEmpty ==
    /\ [](DefaultStackRuns /\ current_ranking_rule < 2
             => ranking_rules[3].buckets = <<>>)
    /\ [][(DefaultStackRuns /\ ExactCalled) =>
             /\ NextOutcome.bucket \subseteq ExactCurrent
             /\ current_ranking_rule' < 2 => NextOutcome.self.buckets = <<>>
             /\ \A k \in 1..Len(NextOutcome.self.buckets) :
                   NextOutcome.self.buckets[k] \subseteq ExactCurrent]_vars

\* The cursor is on Exact for the second time at least, with buckets of
\* documents emitted before it last went back and after it came down again.
C27_Witness ==
    /\ DefaultStackRuns
    /\ current_ranking_rule = 2
    /\ ranking_rules[2].typo_allowed = 2
    /\ \E i, j, k \in 1..Len(res) :
          /\ i < j
          /\ j < k
          /\ res[i] # {}
          /\ res[j] = {}
          /\ res[k] # {}
====
